---- MODULE Spec2Model ----
(***************************************************************************)
(* Prioritized experience replay of learningALE: the unbalanced binary     *)
(* search tree of handlers/binarysearch.py (imported by the store as       *)
(* learningALE.handlers.binarytree) and the store of                       *)
(* handlers/prioritizedexperiencehandler.py built on it.                   *)
(*                                                                         *)
(* The base class learningALE.handlers.experiencehandler.ExperienceHandler *)
(* is not among the sources; its fields (states, actions, rewards,         *)
(* term_states, size, max_len) and its three methods are modelled from the *)
(* specification, sections 3 and 4.2, and from the comment at              *)
(* prioritizedexperiencehandler.py:20 ("insert_ind is len(list)").         *)
(*                                                                         *)
(* Further down: the annealing of handlers/actionhandler.py and the game   *)
(* loop of handlers/gamehandler.py, each run on its own.                   *)
(***************************************************************************)
EXTENDS Bags, FiniteSets, Integers, Sequences, TLC

VARIABLES
    root,        \* BinaryTree.root of the store's tree (or of a bare tree)
    states,      \* ExperienceHandler.states
    actions,     \* ExperienceHandler.actions
    rewards,     \* ExperienceHandler.rewards
    term_states, \* ExperienceHandler.term_states
    size,        \* ExperienceHandler.size
    max_len,     \* ExperienceHandler.max_len
    ret,         \* the last call: its name, arguments and what it returned or raised
    shadow,      \* shadow multiset of the (priority, payload) pairs handed to the tree
    calls,       \* number of calls made so far on the object under study
    unreported,  \* indices a batch returned that set_new_td_errors has not reinserted since
    registered,  \* the store's tree again, each payload paired with the state that
                 \* the buffer held at that index when the entry was inserted
    action_handler, \* an ActionHandler object (None where there is none)
    game,        \* a run of GameHandler.run_one_game (None where there is none)
    host         \* an AsyncLearnerHost and its pipes (None where there is none)

vars == <<root, states, actions, rewards, term_states, size, max_len, ret, shadow,
          calls, unreported, registered, action_handler, game, host>>

(***************************************************************************)
(* Bounds of the model.                                                    *)
(***************************************************************************)
MaxTd == 1        \* finite priorities (td errors) are 0..MaxTd
MaxNodes == 4     \* nodes of a bare tree
MaxPayload == 1   \* payloads of a bare tree are 0..MaxPayload

Tds == 0 .. MaxTd
\* np.inf: a priority greater than or equal to every priority, itself included
Inf == MaxTd + 1
Priorities == Tds \cup {Inf}
Payloads == 0 .. MaxPayload

(***************************************************************************)
(* binarysearch.py: Node                                                   *)
(***************************************************************************)
\* Python's None
None == [none |-> TRUE]

\* Node.__init__
Node(value, extra_vals) ==
    [value |-> value, extra_vals |-> extra_vals, left |-> None, right |-> None]

\* Node.insert with the comparison of line 12 written <= : the greater
\* priorities descend to the left
RECURSIVE Node_insert_flipped(_, _, _)
Node_insert_flipped(self, new_val, extra_vals) ==
    IF new_val <= self.value
    THEN IF self.right # None
         THEN [self EXCEPT !.right = Node_insert_flipped(self.right, new_val, extra_vals)]
         ELSE [self EXCEPT !.right = Node(new_val, extra_vals)]
    ELSE IF self.left # None
         THEN [self EXCEPT !.left = Node_insert_flipped(self.left, new_val, extra_vals)]
         ELSE [self EXCEPT !.left = Node(new_val, extra_vals)]

\* Node.insert with the comparison of line 12 written > : an equal priority
\* descends to the left
RECURSIVE Node_insert_strict(_, _, _)
Node_insert_strict(self, new_val, extra_vals) ==
    IF new_val > self.value
    THEN IF self.right # None
         THEN [self EXCEPT !.right = Node_insert_strict(self.right, new_val, extra_vals)]
         ELSE [self EXCEPT !.right = Node(new_val, extra_vals)]
    ELSE IF self.left # None
         THEN [self EXCEPT !.left = Node_insert_strict(self.left, new_val, extra_vals)]
         ELSE [self EXCEPT !.left = Node(new_val, extra_vals)]

\* Node.insert: the node after self.insert(new_val, extra_vals)
RECURSIVE Node_insert(_, _, _)
Node_insert(self, new_val, extra_vals) ==
    IF new_val >= self.value
    THEN IF self.right # None
         THEN [self EXCEPT !.right = Node_insert(self.right, new_val, extra_vals)]
         ELSE [self EXCEPT !.right = Node(new_val, extra_vals)]
    ELSE IF self.left # None
         THEN [self EXCEPT !.left = Node_insert(self.left, new_val, extra_vals)]
         ELSE [self EXCEPT !.left = Node(new_val, extra_vals)]

\* Node.pop_max without line 29: the left subtree of the detached node is
\* dropped instead of being hung in its place
RECURSIVE Node_pop_max_nosplice(_)
Node_pop_max_nosplice(self) ==
    IF self.right # None
    THEN LET r == Node_pop_max_nosplice(self.right)
         IN  [ret_val |-> r.ret_val, extra_vals |-> r.extra_vals,
              hanging_left |-> r.hanging_left, term |-> 0,
              self |-> IF r.term = 1
                       THEN [self EXCEPT !.right = None]
                       ELSE [self EXCEPT !.right = r.self]]
    ELSE [ret_val |-> self.value, extra_vals |-> self.extra_vals,
          hanging_left |-> self.left, term |-> 1, self |-> self]

\* Node.pop_max: the returned tuple (ret_val, extra_vals, hanging_left, term)
\* and, as self, the node after the call
RECURSIVE Node_pop_max(_)
Node_pop_max(self) ==
    IF self.right # None
    THEN LET r == Node_pop_max(self.right)
         IN  [ret_val |-> r.ret_val, extra_vals |-> r.extra_vals,
              hanging_left |-> r.hanging_left, term |-> 0,
              self |-> IF r.term = 1
                       THEN [self EXCEPT !.right = r.hanging_left]
                       ELSE [self EXCEPT !.right = r.self]]
    ELSE [ret_val |-> self.value, extra_vals |-> self.extra_vals,
          hanging_left |-> self.left, term |-> 1, self |-> self]

(***************************************************************************)
(* binarysearch.py: BinaryTree                                             *)
(***************************************************************************)
\* BinaryTree.insert: the root after the call
BinaryTree_insert(rt, val, extra_vals) ==
    IF rt # None THEN Node_insert(rt, val, extra_vals) ELSE Node(val, extra_vals)

\* BinaryTree.pop_max with line 76 setting the root to None: the left subtree
\* of a popped root is lost
BinaryTree_pop_max_dropleft(rt) ==
    LET r == Node_pop_max(rt)
    IN  [val |-> r.ret_val, extra_vals |-> r.extra_vals,
         root |-> IF r.term = 1 THEN None ELSE r.self]

\* BinaryTree.pop_max on a non-empty tree: the returned (val, extra_vals) and
\* the root after the call
BinaryTree_pop_max(rt) ==
    LET r == Node_pop_max(rt)
    IN  [val |-> r.ret_val, extra_vals |-> r.extra_vals,
         root |-> IF r.term = 1 THEN r.hanging_left ELSE r.self]

(***************************************************************************)
(* Measures of a tree, by full traversal.                                  *)
(***************************************************************************)
RECURSIVE TreeCount(_)
TreeCount(n) == IF n = None THEN 0 ELSE 1 + TreeCount(n.left) + TreeCount(n.right)

RECURSIVE TreeValues(_)
TreeValues(n) ==
    IF n = None THEN {} ELSE {n.value} \cup TreeValues(n.left) \cup TreeValues(n.right)

RECURSIVE TreeBag(_)
TreeBag(n) ==
    IF n = None THEN EmptyBag
    ELSE SetToBag({<<n.value, n.extra_vals>>}) (+) TreeBag(n.left) (+) TreeBag(n.right)

RECURSIVE SubTrees(_)
SubTrees(n) == IF n = None THEN {} ELSE {n} \cup SubTrees(n.left) \cup SubTrees(n.right)

RECURSIVE TreePayloads(_)
TreePayloads(n) ==
    IF n = None THEN {}
    ELSE {n.extra_vals} \cup TreePayloads(n.left) \cup TreePayloads(n.right)

SetMax(S) == CHOOSE m \in S : \A x \in S : x <= m

ShadowValues == {pr[1] : pr \in BagToSet(shadow)}

(***************************************************************************)
(* The store before any call.                                              *)
(***************************************************************************)
EmptyStore(cap) ==
    /\ root = None
    /\ states = <<>>
    /\ actions = <<>>
    /\ rewards = <<>>
    /\ term_states = {}
    /\ size = 0
    /\ max_len = cap
    /\ ret = [op |-> "init"]
    /\ shadow = EmptyBag
    /\ calls = 0
    /\ unreported = {}
    /\ registered = None

\* the objects that take no part in a run of the tree or of the store
others == <<action_handler, game, host>>
NoOthers == action_handler = None /\ game = None /\ host = None

store == <<states, actions, rewards, term_states, size, max_len, calls, unreported,
           registered, others>>

(***************************************************************************)
(* A bare BinaryTree driven by arbitrary insert and pop_max calls.         *)
(***************************************************************************)
TreeInsert ==
    \E val \in Priorities, extra_vals \in Payloads :
        /\ TreeCount(root) < MaxNodes
        /\ root' = BinaryTree_insert(root, val, extra_vals)
        /\ shadow' = shadow (+) SetToBag({<<val, extra_vals>>})
        /\ ret' = [op |-> "insert", val |-> val, extra_vals |-> extra_vals]
        /\ UNCHANGED store

TreePopMax ==
    /\ root # None
    /\ LET r == BinaryTree_pop_max(root)
       IN  /\ root' = r.root
           /\ shadow' = shadow (-) SetToBag({<<r.val, r.extra_vals>>})
           /\ ret' = [op |-> "pop_max", val |-> r.val, extra_vals |-> r.extra_vals]
    /\ UNCHANGED store

InitTree == EmptyStore(0) /\ NoOthers
NextTree == TreeInsert \/ TreePopMax
SpecTree == InitTree /\ [][NextTree]_vars

(***************************************************************************)
(* A bare BinaryTree whose payloads are the serial numbers of the inserts: *)
(* the tree never looks into a payload, so the n-th insert is given        *)
(* payload n and the order of insertion can be read off the entries. calls *)
(* counts the inserts.                                                     *)
(***************************************************************************)
MaxInserts == 4   \* inserts made into a tree of numbered entries

TreeInsertNumbered ==
    \E val \in Priorities :
        /\ calls < MaxInserts
        /\ root' = BinaryTree_insert(root, val, calls)
        /\ shadow' = shadow (+) SetToBag({<<val, calls>>})
        /\ ret' = [op |-> "insert", val |-> val, extra_vals |-> calls]
        /\ calls' = calls + 1
        /\ UNCHANGED <<states, actions, rewards, term_states, size, max_len,
                       unreported, registered, others>>

InitNumbered == EmptyStore(0) /\ NoOthers
NextNumbered == TreeInsertNumbered \/ TreePopMax
SpecNumbered == InitNumbered /\ [][NextNumbered]_vars

(***************************************************************************)
(* Inputs of the store.                                                    *)
(***************************************************************************)
MaxCalls == 8      \* calls made on the store in a run
MaxBatch == 2      \* mini_batch is 1..MaxBatch
MaxCapacity == 2   \* max_len is 1..MaxCapacity

\* The store never looks into a state, an action or a reward: it only moves
\* them between its lists and the batch. The n-th transition the environment
\* delivers is therefore given contents that tell it apart from every other
\* one and its three fields apart from each other: state array n, action id
\* n mod 2, reward -n.
Transition(n) == <<n, n % 2, -n>>
\* the number of the transition delivered next
NextFrame == IF states = <<>> THEN 1 ELSE states[Len(states)] + 1
\* the slot np.zeros leaves in mb_states and mb_states_tp1
ZeroState == 0

\* numpy's conversion of an integer-valued number to float32: exact up to
\* 2^24 in magnitude, rounded to the nearest even multiple of 2 up to 2^25
AsFloat32(x) ==
    LET a == IF x < 0 THEN -x ELSE x
        h == a \div 2
        r == IF a <= 16777216 \/ a % 2 = 0 THEN a
             ELSE IF h % 2 = 0 THEN 2 * h ELSE 2 * (h + 1)
    IN  IF x < 0 THEN -r ELSE r

\* numpy's conversion of a Python int to dtype int (int64): exact in range
AsInt(x) == x

\* Python's list[i]: i counts from 0, a negative i from the end
InRange(list, i) == -Len(list) <= i /\ i < Len(list)
ListGet(list, i) == IF i >= 0 THEN list[i + 1] ELSE list[Len(list) + i + 1]

(***************************************************************************)
(* ExperienceHandler, the base class of the store.                         *)
(***************************************************************************)
\* ExperienceHandler.__init__(max_len): a capacity that is not positive is
\* refused at construction
ExperienceHandler_init(cap) == IF cap <= 0 THEN "ValueError" ELSE "ok"

\* ExperienceHandler.add_experience: append the transition, return the new
\* length of the list
ExperienceHandler_add_experience(sts, acts, rews, sz, state, action, reward) ==
    [states |-> Append(sts, state), actions |-> Append(acts, action),
     rewards |-> Append(rews, reward), size |-> sz + 1,
     insert_ind |-> Len(sts) + 1]

\* ExperienceHandler.add_terminal: mark the current end-of-sequence index
ExperienceHandler_add_terminal(sts, terms) == terms \cup {Len(sts) - 1}

\* ExperienceHandler.trim on one of the three lists: discard the oldest
\* entries until the length is at most the capacity
ExperienceHandler_trim(list, cap) ==
    IF Len(list) > cap THEN SubSeq(list, Len(list) - cap + 1, Len(list)) ELSE list

(***************************************************************************)
(* prioritizedexperiencehandler.py: PrioritizedExperienceHandler           *)
(***************************************************************************)
\* add_experience with line 20 registering insert_ind-1, the transition just
\* appended
add_experience_newest(rt, insert_ind) ==
    IF insert_ind > 1 THEN BinaryTree_insert(rt, Inf, insert_ind - 1) ELSE rt

\* add_experience with the test of line 18 written > 0: the first transition
\* is registered too
add_experience_first(rt, insert_ind) ==
    IF insert_ind > 0 THEN BinaryTree_insert(rt, Inf, insert_ind - 2) ELSE rt

\* add_experience, after super().add_experience returned insert_ind: the tree
add_experience(rt, insert_ind) ==
    IF insert_ind > 1 THEN BinaryTree_insert(rt, Inf, insert_ind - 2) ELSE rt

\* add_terminal, after super().add_terminal(): the tree
add_terminal(rt, sz) == BinaryTree_insert(rt, Inf, sz - 1)

\* the local lists of get_prioritized_experience before its loop
NewBatch(mini_batch, rt) ==
    [root |-> rt, exc |-> "none", popped |-> <<>>,
     mb_states |-> [j \in 1 .. mini_batch |-> ZeroState],
     mb_states_tp1 |-> [j \in 1 .. mini_batch |-> ZeroState],
     mb_actions |-> <<>>, mb_rewards |-> <<>>, mb_terminal |-> <<>>,
     mb_inds_poped |-> <<>>]

\* the loop with line 46 reading self.states[exp_ind]: the next state of a
\* sampled transition is the state itself
RECURSIVE get_loop_same_state(_, _, _, _, _, _, _)
get_loop_same_state(exp, mini_batch, mb, sts, acts, rews, terms) ==
    IF exp >= mini_batch THEN mb
    ELSE IF mb.root = None THEN [mb EXCEPT !.exc = "AttributeError"]
    ELSE
    LET p == BinaryTree_pop_max(mb.root)
        exp_ind == p.extra_vals
        mb1 == [mb EXCEPT !.root = p.root,
                          !.popped = Append(@, <<p.val, exp_ind>>),
                          !.mb_inds_poped = Append(@, exp_ind)]
    IN  IF ~InRange(sts, exp_ind) THEN [mb1 EXCEPT !.exc = "IndexError"]
        ELSE
        LET mb2 == [mb1 EXCEPT !.mb_states[exp + 1] = AsFloat32(ListGet(sts, exp_ind))]
        IN  IF exp_ind \in terms
            THEN get_loop_same_state(exp + 1, mini_batch,
                     [mb2 EXCEPT !.mb_terminal = Append(@, 1),
                                 !.mb_actions = Append(@, ListGet(acts, exp_ind)),
                                 !.mb_rewards = Append(@, ListGet(rews, exp_ind))],
                     sts, acts, rews, terms)
            ELSE IF ~InRange(sts, exp_ind + 1)
            THEN [mb2 EXCEPT !.mb_terminal = Append(@, 0), !.exc = "IndexError"]
            ELSE get_loop_same_state(exp + 1, mini_batch,
                     [mb2 EXCEPT !.mb_terminal = Append(@, 0),
                                 !.mb_states_tp1[exp + 1] =
                                     AsFloat32(ListGet(sts, exp_ind)),
                                 !.mb_actions = Append(@, ListGet(acts, exp_ind)),
                                 !.mb_rewards = Append(@, ListGet(rews, exp_ind))],
                     sts, acts, rews, terms)

\* iterations exp, exp+1, ... of the loop of get_prioritized_experience; exc
\* names the exception that ended it early: AttributeError for pop_max on a
\* tree whose root is None, IndexError for a list index out of range
RECURSIVE get_loop(_, _, _, _, _, _, _)
get_loop(exp, mini_batch, mb, sts, acts, rews, terms) ==
    IF exp >= mini_batch THEN mb
    ELSE IF mb.root = None THEN [mb EXCEPT !.exc = "AttributeError"]
    ELSE
    LET p == BinaryTree_pop_max(mb.root)
        exp_ind == p.extra_vals
        mb1 == [mb EXCEPT !.root = p.root,
                          !.popped = Append(@, <<p.val, exp_ind>>),
                          !.mb_inds_poped = Append(@, exp_ind)]
    IN  IF ~InRange(sts, exp_ind) THEN [mb1 EXCEPT !.exc = "IndexError"]
        ELSE
        LET mb2 == [mb1 EXCEPT !.mb_states[exp + 1] = AsFloat32(ListGet(sts, exp_ind))]
        IN  IF exp_ind \in terms
            THEN get_loop(exp + 1, mini_batch,
                     [mb2 EXCEPT !.mb_terminal = Append(@, 1),
                                 !.mb_actions = Append(@, ListGet(acts, exp_ind)),
                                 !.mb_rewards = Append(@, ListGet(rews, exp_ind))],
                     sts, acts, rews, terms)
            ELSE IF ~InRange(sts, exp_ind + 1)
            THEN [mb2 EXCEPT !.mb_terminal = Append(@, 0), !.exc = "IndexError"]
            ELSE get_loop(exp + 1, mini_batch,
                     [mb2 EXCEPT !.mb_terminal = Append(@, 0),
                                 !.mb_states_tp1[exp + 1] =
                                     AsFloat32(ListGet(sts, exp_ind + 1)),
                                 !.mb_actions = Append(@, ListGet(acts, exp_ind)),
                                 !.mb_rewards = Append(@, ListGet(rews, exp_ind))],
                     sts, acts, rews, terms)

\* get_prioritized_experience with the test of line 27 written < : a buffer
\* of exactly mini_batch entries is sampled
get_prioritized_experience_lt(mini_batch, rt, sts, acts, rews, terms, sz) ==
    IF sz < mini_batch
    THEN [NewBatch(0, rt) EXCEPT !.exc = "null"]
    ELSE IF ~InRange(sts, 0)
    THEN [NewBatch(0, rt) EXCEPT !.exc = "IndexError"]
    ELSE IF mini_batch < 0
    THEN [NewBatch(0, rt) EXCEPT !.exc = "ValueError"]
    ELSE LET mb == get_loop(0, mini_batch, NewBatch(mini_batch, rt),
                            sts, acts, rews, terms)
         IN  IF mb.exc # "none" THEN mb
             ELSE [mb EXCEPT !.exc = "batch",
                      !.mb_actions = [j \in DOMAIN @ |-> AsInt(@[j])],
                      !.mb_rewards = [j \in DOMAIN @ |-> AsFloat32(@[j])],
                      !.mb_terminal = [j \in DOMAIN @ |-> AsInt(@[j])]]

\* get_prioritized_experience with the loop of line 37 running one iteration
\* too many
get_prioritized_experience_extra(mini_batch, rt, sts, acts, rews, terms, sz) ==
    IF sz <= mini_batch
    THEN [NewBatch(0, rt) EXCEPT !.exc = "null"]
    ELSE IF ~InRange(sts, 0)
    THEN [NewBatch(0, rt) EXCEPT !.exc = "IndexError"]
    ELSE IF mini_batch < 0
    THEN [NewBatch(0, rt) EXCEPT !.exc = "ValueError"]
    ELSE LET mb == get_loop(0, mini_batch + 1, NewBatch(mini_batch + 1, rt),
                            sts, acts, rews, terms)
         IN  IF mb.exc # "none" THEN mb
             ELSE [mb EXCEPT !.exc = "batch",
                      !.mb_actions = [j \in DOMAIN @ |-> AsInt(@[j])],
                      !.mb_rewards = [j \in DOMAIN @ |-> AsFloat32(@[j])],
                      !.mb_terminal = [j \in DOMAIN @ |-> AsInt(@[j])]]

\* get_prioritized_experience: status is "null" for the six None values,
\* "batch" for a returned batch, or the name of the exception raised:
\* IndexError also for self.states[0] of line 30 on an empty buffer,
\* ValueError for np.zeros of line 31 with a negative dimension
get_prioritized_experience(mini_batch, rt, sts, acts, rews, terms, sz) ==
    IF sz <= mini_batch
    THEN [NewBatch(0, rt) EXCEPT !.exc = "null"]
    ELSE IF ~InRange(sts, 0)
    THEN [NewBatch(0, rt) EXCEPT !.exc = "IndexError"]
    ELSE IF mini_batch < 0
    THEN [NewBatch(0, rt) EXCEPT !.exc = "ValueError"]
    ELSE LET mb == get_loop(0, mini_batch, NewBatch(mini_batch, rt),
                            sts, acts, rews, terms)
         IN  IF mb.exc # "none" THEN mb
             ELSE [mb EXCEPT !.exc = "batch",
                      !.mb_actions = [j \in DOMAIN @ |-> AsInt(@[j])],
                      !.mb_rewards = [j \in DOMAIN @ |-> AsFloat32(@[j])],
                      !.mb_terminal = [j \in DOMAIN @ |-> AsInt(@[j])]]

\* set_new_td_errors with a return inside the loop of line 56: only the
\* first pair is inserted
set_new_td_errors_first(rt, td_errors, state_inds) ==
    IF td_errors = <<>> \/ state_inds = <<>> THEN rt
    ELSE BinaryTree_insert(rt, Head(td_errors), Head(state_inds))

\* set_new_td_errors: the tree after inserting the zipped pairs in order
RECURSIVE set_new_td_errors(_, _, _)
set_new_td_errors(rt, td_errors, state_inds) ==
    IF td_errors = <<>> \/ state_inds = <<>> THEN rt
    ELSE set_new_td_errors(BinaryTree_insert(rt, Head(td_errors), Head(state_inds)),
                           Tail(td_errors), Tail(state_inds))

\* trim without the call of line 60
trim_nothing(list, cap) == list

\* trim: super().trim() on one of the three lists
trim(list, cap) == ExperienceHandler_trim(list, cap)

(***************************************************************************)
(* The calls of the store.                                                 *)
(***************************************************************************)
SeqToBag(sq) == [e \in {sq[j] : j \in DOMAIN sq} |-> Cardinality({j \in DOMAIN sq : sq[j] = e})]
Zip(a, b) == [j \in 1 .. (IF Len(a) < Len(b) THEN Len(a) ELSE Len(b)) |-> <<a[j], b[j]>>]
SeqRange(sq) == {sq[j] : j \in DOMAIN sq}

\* the tree after n pop_max calls, or as many as it has entries
RECURSIVE DropMax(_, _)
DropMax(rt, n) ==
    IF n = 0 \/ rt = None THEN rt ELSE DropMax(BinaryTree_pop_max(rt).root, n - 1)

AddExperience ==
    LET t == Transition(NextFrame)
    IN  /\ LET b == ExperienceHandler_add_experience(states, actions, rewards, size,
                                                     t[1], t[2], t[3])
           IN  /\ states' = b.states
               /\ actions' = b.actions
               /\ rewards' = b.rewards
               /\ size' = b.size
               /\ root' = add_experience(root, b.insert_ind)
               /\ shadow' = IF b.insert_ind > 1
                            THEN shadow (+) SetToBag({<<Inf, b.insert_ind - 2>>})
                            ELSE shadow
               /\ registered' =
                      IF b.insert_ind > 1
                      THEN BinaryTree_insert(registered, Inf,
                               <<b.insert_ind - 2, ListGet(b.states, b.insert_ind - 2)>>)
                      ELSE registered
               /\ ret' = [op |-> "add_experience", insert_ind |-> b.insert_ind]
        /\ calls' = calls + 1
        /\ UNCHANGED <<term_states, max_len, unreported, others>>

\* the environment marks the last transition of an episode, once
AddTerminal ==
    /\ size >= 1
    /\ (Len(states) - 1) \notin term_states
    /\ term_states' = ExperienceHandler_add_terminal(states, term_states)
    /\ root' = add_terminal(root, size)
    /\ shadow' = shadow (+) SetToBag({<<Inf, size - 1>>})
    /\ registered' = BinaryTree_insert(registered, Inf,
                                       <<size - 1, ListGet(states, size - 1)>>)
    /\ ret' = [op |-> "add_terminal"]
    /\ calls' = calls + 1
    /\ UNCHANGED <<states, actions, rewards, size, max_len, unreported, others>>

\* ret.after is the call made just before this one: its name, and its
\* arguments too if it was set_new_td_errors; ret.td_error lists the priorities
\* popped with the indices of a returned batch
Sample(mini_batch) ==
    LET mb == get_prioritized_experience(mini_batch, root, states, actions,
                                         rewards, term_states, size)
        call == [op |-> "get_prioritized_experience", mini_batch |-> mini_batch,
                 status |-> mb.exc,
                 after |-> IF ret.op = "set_new_td_errors" THEN ret
                           ELSE [op |-> ret.op]]
    IN  /\ root' = mb.root
        /\ shadow' = shadow (-) SeqToBag(mb.popped)
        /\ registered' = DropMax(registered, Len(mb.popped))
        /\ ret' = IF mb.exc = "batch"
                  THEN call @@ [mb_states |-> mb.mb_states,
                                mb_actions |-> mb.mb_actions,
                                mb_rewards |-> mb.mb_rewards,
                                mb_states_tp1 |-> mb.mb_states_tp1,
                                mb_terminal |-> mb.mb_terminal,
                                mb_inds_poped |-> mb.mb_inds_poped,
                                td_error |-> [j \in DOMAIN mb.popped |-> mb.popped[j][1]]]
                  ELSE IF mb.exc = "null"
                  THEN call @@ [mb_states |-> None, mb_actions |-> None,
                                mb_rewards |-> None, mb_states_tp1 |-> None,
                                mb_terminal |-> None, mb_inds_poped |-> None]
                  ELSE call
        /\ unreported' = IF mb.exc = "batch"
                         THEN unreported \cup SeqRange(mb.mb_inds_poped)
                         ELSE unreported
        /\ UNCHANGED <<states, actions, rewards, term_states, size, max_len, others>>

GetBatch(mini_batch) == Sample(mini_batch) /\ calls' = calls + 1

GetPrioritizedExperience == \E mini_batch \in 1 .. MaxBatch : GetBatch(mini_batch)

\* the training step reports a priority for each index of the batch it was
\* just given
Report ==
    /\ ret.op = "get_prioritized_experience"
    /\ ret.status = "batch"
    /\ \E td_errors \in [1 .. ret.mini_batch -> Tds] :
        /\ root' = set_new_td_errors(root, td_errors, ret.mb_inds_poped)
        /\ shadow' = shadow (+) SeqToBag(Zip(td_errors, ret.mb_inds_poped))
        /\ registered' = set_new_td_errors(registered, td_errors,
                             [j \in DOMAIN ret.mb_inds_poped |->
                                 <<ret.mb_inds_poped[j],
                                   IF InRange(states, ret.mb_inds_poped[j])
                                   THEN ListGet(states, ret.mb_inds_poped[j])
                                   ELSE ZeroState>>])
        /\ ret' = [op |-> "set_new_td_errors", td_errors |-> td_errors,
                   state_inds |-> ret.mb_inds_poped]
        /\ unreported' = unreported \ SeqRange(ret.mb_inds_poped)
    /\ UNCHANGED <<states, actions, rewards, term_states, size, max_len, others>>

SetNewTdErrors == Report /\ calls' = calls + 1

Trim ==
    /\ states' = trim(states, max_len)
    /\ actions' = trim(actions, max_len)
    /\ rewards' = trim(rewards, max_len)
    /\ size' = Len(states')
    /\ ret' = [op |-> "trim", discarded |-> Len(states) - Len(states')]
    /\ calls' = calls + 1
    /\ UNCHANGED <<root, term_states, max_len, shadow, unreported, registered, others>>

Init == (\E cap \in 1 .. MaxCapacity : EmptyStore(cap)) /\ NoOthers
Next ==
    \/ calls < MaxCalls /\ AddExperience
    \/ calls < MaxCalls /\ AddTerminal
    \/ calls < MaxCalls /\ GetPrioritizedExperience
    \/ calls < MaxCalls /\ SetNewTdErrors
    \/ calls < MaxCalls /\ Trim
Spec == Init /\ [][Next]_vars

(***************************************************************************)
(* The scenario of a store of capacity 5: four transitions, the terminal   *)
(* marker and a batch of two, after which training goes on with reports    *)
(* and further batches.                                                    *)
(***************************************************************************)
InitScenario == EmptyStore(5) /\ NoOthers
NextScenario ==
    \/ calls < 4 /\ AddExperience
    \/ calls = 4 /\ AddTerminal
    \/ calls = 5 /\ GetBatch(2)
    \/ calls > 5 /\ calls < MaxCalls + 4 /\ SetNewTdErrors
    \/ calls > 5 /\ calls < MaxCalls + 4 /\ GetPrioritizedExperience
SpecScenario == InitScenario /\ [][NextScenario]_vars

(***************************************************************************)
(* The store constructed with any capacity and asked for batches of any    *)
(* size, zero and negative ones included. __init__ hands max_len to        *)
(* ExperienceHandler.__init__ and checks nothing itself; a store whose     *)
(* construction raised does not exist and receives no call.                *)
(***************************************************************************)
MaxConfigCalls == 5   \* calls made on a store of any configuration

Capacities == -1 .. MaxCapacity
BatchSizes == -1 .. MaxBatch

\* PrioritizedExperienceHandler.__init__
NewStore(cap) ==
    /\ root = None
    /\ states = <<>>
    /\ actions = <<>>
    /\ rewards = <<>>
    /\ term_states = {}
    /\ size = 0
    /\ max_len = cap
    /\ ret = [op |-> "__init__", max_len |-> cap, status |-> ExperienceHandler_init(cap)]
    /\ shadow = EmptyBag
    /\ calls = 0
    /\ unreported = {}
    /\ registered = None

Constructed == ExperienceHandler_init(max_len) = "ok"

InitConfig == (\E cap \in Capacities : NewStore(cap)) /\ NoOthers
NextConfig ==
    \/ Constructed /\ calls < MaxConfigCalls /\ AddExperience
    \/ Constructed /\ calls < MaxConfigCalls /\ AddTerminal
    \/ Constructed /\ calls < MaxConfigCalls
          /\ \E mini_batch \in BatchSizes : GetBatch(mini_batch)
    \/ Constructed /\ calls < MaxConfigCalls /\ SetNewTdErrors
    \/ Constructed /\ calls < MaxConfigCalls /\ Trim
SpecConfig == InitConfig /\ [][NextConfig]_vars

(***************************************************************************)
(* The training loop run for ever on a store that is filled with up to     *)
(* MaxFill add_experience and add_terminal calls: the loop draws a batch   *)
(* and reports a priority for each of its indices before anything else is  *)
(* called. Batches of every size keep being requested, and a returned      *)
(* batch is always reported.                                               *)
(***************************************************************************)
MaxFill == 3   \* add_experience and add_terminal calls of a training run

BatchOutstanding == ret.op = "get_prioritized_experience" /\ ret.status = "batch"

TrainGet(mini_batch) ==
    /\ ~BatchOutstanding
    /\ Sample(mini_batch)
    /\ UNCHANGED calls

TrainSet == Report /\ UNCHANGED calls

InitLive == EmptyStore(MaxFill) /\ NoOthers
NextLive ==
    \/ calls < MaxFill /\ ~BatchOutstanding /\ AddExperience
    \/ calls < MaxFill /\ ~BatchOutstanding /\ AddTerminal
    \/ \E mini_batch \in 1 .. MaxBatch : TrainGet(mini_batch)
    \/ TrainSet
SpecLive ==
    /\ InitLive
    /\ [][NextLive]_vars
    /\ WF_vars(TrainSet)
    /\ \A mini_batch \in 1 .. MaxBatch : []<><<TrainGet(mini_batch)>>_vars

(***************************************************************************)
(* actionhandler.py: ActionHandler, its constructor and anneal().          *)
(*                                                                         *)
(* The random values are Python floats. They are modelled as exact         *)
(* fractions <<numerator, denominator>> in lowest terms: the arithmetic of *)
(* linspace and of anneal is carried out as the code writes it, without    *)
(* the rounding of float64.                                                *)
(***************************************************************************)
MaxRand == 3          \* random values are 0/MaxRand .. MaxRand/MaxRand
MaxAnnealSteps == 3   \* the number of steps to anneal over is 2..MaxAnnealSteps
MaxAnneals == 4       \* anneal() calls in a run

Abs(x) == IF x < 0 THEN -x ELSE x

RECURSIVE Gcd(_, _)
Gcd(a, b) == IF b = 0 THEN a ELSE Gcd(b, a % b)

\* the fraction n/d, d # 0, in lowest terms with a positive denominator
Frac(n, d) ==
    LET g == Gcd(Abs(n), Abs(d))
        sg == IF d < 0 THEN -1 ELSE 1
    IN  <<sg * (n \div g), sg * (d \div g)>>

FracAdd(a, b) == Frac(a[1] * b[2] + b[1] * a[2], a[2] * b[2])
FracSub(a, b) == Frac(a[1] * b[2] - b[1] * a[2], a[2] * b[2])
FracMul(k, a) == Frac(k * a[1], a[2])
FracDiv(a, k) == Frac(a[1], a[2] * k)
FracLess(a, b) == a[1] * b[2] < b[1] * a[2]

\* np.linspace(start, stop, num) for num >= 2: start + i*step for
\* i = 0..num-1 with step = (stop-start)/(num-1), the last element set to
\* stop; element i of the array is element i+1 of the sequence
Linspace(start, stop, num) ==
    LET step == FracDiv(FracSub(stop, start), num - 1)
    IN  [j \in 1 .. num |-> IF j = num THEN stop
                            ELSE FracAdd(FracMul(j - 1, step), start)]

\* ActionHandler.__init__; random_values keeps the constructor's argument
ActionHandler_init(random_values) ==
    LET lin == Linspace(random_values[1], random_values[2], random_values[3])
    IN  [randVal |-> random_values[1],
         lowestRandVal |-> random_values[2],
         diff |-> FracSub(lin[1], lin[2]),
         countRand |-> 0,
         actionCount |-> 0,
         random_values |-> random_values]

\* ActionHandler.anneal without the test of line 81
ActionHandler_anneal_nofloor(self) ==
    [self EXCEPT !.randVal = FracSub(self.randVal, self.diff)]

\* ActionHandler.anneal
ActionHandler_anneal(self) ==
    LET randVal == FracSub(self.randVal, self.diff)
    IN  [self EXCEPT !.randVal = IF FracLess(randVal, self.lowestRandVal)
                                 THEN self.lowestRandVal
                                 ELSE randVal]

RandVals == {Frac(n, MaxRand) : n \in 0 .. MaxRand}

Anneal ==
    /\ action_handler' = ActionHandler_anneal(action_handler)
    /\ ret' = [op |-> "anneal"]
    /\ calls' = calls + 1
    /\ UNCHANGED <<root, states, actions, rewards, term_states, size, max_len,
                   shadow, unreported, registered, game, host>>

InitAnneal ==
    /\ EmptyStore(0)
    /\ game = None
    /\ host = None
    /\ \E initial \in RandVals, ending \in RandVals, steps \in 2 .. MaxAnnealSteps :
           action_handler = ActionHandler_init(<<initial, ending, steps>>)
NextAnneal == calls < MaxAnneals /\ Anneal
SpecAnneal == InitAnneal /\ [][NextAnneal]_vars

(***************************************************************************)
(* gamehandler.py: GameHandler.run_one_game.                               *)
(*                                                                         *)
(* The emulator and the learner are outside the program: ale.act returns   *)
(* any reward, may lower the life counter in RAM and may end the game;     *)
(* learner.get_game_action returns any legal action. game holds the        *)
(* arguments and locals of one call, the emulator's state (game_over,      *)
(* ram_lives = ram[life_ram_ind]) and the position pc in the code:         *)
(* "while" at the test of line 74, "for" inside the frame-skip loop of     *)
(* lines 80-101, "step" at line 105, "done" after a return. The fields     *)
(* step_lost, lost_steps and step_rewards record the history: a drop of    *)
(* the life counter seen at line 99 during the current step, the number of *)
(* completed steps with such a drop, the reward of each completed step.    *)
(***************************************************************************)
MaxSkip == 2        \* skip_frame is 1..MaxSkip
MaxLives == 2       \* lives at the start of a game are 1..MaxLives
MaxGameSteps == 2   \* frame-skip steps of a game

AleRewards == {-1, 0, 3}   \* what ale.act returns
LegalActions == {0, 1}     \* what learner.get_game_action returns

\* an optional integer argument: None or PyInt(n)
PyInt(n) == [int |-> n]

\* lines 65-73
GameHandler_run_one_game(skipFrame, lives, life_ram_ind, early_return) ==
    [skipFrame |-> skipFrame,
     lives |-> lives,
     life_ram_ind |-> life_ram_ind,
     early_return |-> early_return,
     neg_reward |-> (lives # None /\ life_ram_ind # None),
     total_reward |-> 0,
     action_to_perform |-> 0,
     frames |-> 0,
     reward |-> 0,
     frameCount |-> 0,
     game_over |-> FALSE,
     ram_lives |-> IF lives # None THEN lives.int ELSE MaxLives,
     pc |-> "while",
     step_lost |-> FALSE,
     lost_steps |-> 0,
     step_rewards |-> <<>>,
     sent |-> <<>>,
     learner_log |-> <<>>,
     returned |-> <<>>]

\* lines 109-111 done in the opposite order: action_to_perform is overwritten first
learner_calls_late(action_to_perform, reward, action) ==
    [log |-> << <<"get_game_action", action>>,
                <<"frames_processed", action, reward>> >>,
     action_to_perform |-> action]

\* lines 109-111: the calls made on the learner in one iteration of the loop of
\* line 74, in their order, and the action the next step performs; action is
\* the value that learner.get_game_action returns
learner_calls(action_to_perform, reward, action) ==
    [log |-> << <<"frames_processed", action_to_perform, reward>>,
                <<"get_game_action", action>> >>,
     action_to_perform |-> action]

\* line 74 and, when the game is over, line 120; otherwise lines 76-77
RunOneGame_while ==
    /\ game # None
    /\ game.pc = "while"
    /\ IF game.game_over
       THEN /\ game' = [game EXCEPT !.pc = "done"]
            /\ ret' = [op |-> "run_one_game", line |-> 120, value |-> game.total_reward]
       ELSE /\ Len(game.step_rewards) < MaxGameSteps
            /\ game' = [game EXCEPT !.pc = "for", !.frames = 0, !.reward = 0,
                                    !.step_lost = FALSE, !.sent = <<>>,
                                    !.learner_log = <<>>]
            /\ UNCHANGED ret
    /\ UNCHANGED <<root, states, actions, rewards, term_states, size, max_len,
                   shadow, calls, unreported, registered, action_handler, host>>

\* one iteration of the loop of line 80: lines 81-101
RunOneGame_frame ==
    /\ game # None
    /\ game.pc = "for"
    /\ \E rew \in AleRewards, over \in BOOLEAN,
          ram \in {game.ram_lives, game.ram_lives - 1} \cap (0 .. MaxLives) :
         LET reward1 == IF rew > 0 THEN game.reward + 1 ELSE game.reward
             lost == game.neg_reward /\ ram < game.lives.int
         IN  game' = [game EXCEPT
                 !.frames = @ + 1,
                 !.game_over = @ \/ over,
                 !.ram_lives = ram,
                 !.reward = IF lost THEN reward1 - 1 ELSE reward1,
                 !.lives = IF lost THEN PyInt(ram) ELSE @,
                 !.step_lost = @ \/ lost,
                 !.sent = Append(@, game.action_to_perform),
                 !.pc = IF game.frames + 1 < game.skipFrame THEN "for" ELSE "step"]
    /\ calls' = calls + 1
    /\ UNCHANGED <<root, states, actions, rewards, term_states, size, max_len,
                   shadow, ret, unreported, registered, action_handler, host>>

\* lines 105-117
RunOneGame_step ==
    /\ game # None
    /\ game.pc = "step"
    /\ \E action \in LegalActions :
         LET total_reward == game.total_reward + game.reward
             leave == game.reward < 0 /\ game.early_return
             learner == learner_calls(game.action_to_perform, game.reward, action)
         IN  /\ game' = [game EXCEPT
                   !.total_reward = total_reward,
                   !.action_to_perform = learner.action_to_perform,
                   !.learner_log = learner.log,
                   !.returned = Append(@, action),
                   !.frameCount = @ + 1 * game.skipFrame,
                   !.step_rewards = Append(@, game.reward),
                   !.lost_steps = IF game.step_lost THEN @ + 1 ELSE @,
                   !.pc = IF leave THEN "done" ELSE "while"]
             /\ ret' = IF leave
                       THEN [op |-> "run_one_game", line |-> 117, value |-> total_reward]
                       ELSE ret
    /\ UNCHANGED <<root, states, actions, rewards, term_states, size, max_len,
                   shadow, calls, unreported, registered, action_handler, host>>

InitGame ==
    /\ EmptyStore(0)
    /\ action_handler = None
    /\ host = None
    /\ \E skipFrame \in 1 .. MaxSkip,
          lives \in {None} \cup {PyInt(n) : n \in 1 .. MaxLives},
          life_ram_ind \in {None, PyInt(0)}, early_return \in BOOLEAN :
           game = GameHandler_run_one_game(skipFrame, lives, life_ram_ind, early_return)
NextGame ==
    \/ RunOneGame_while
    \/ RunOneGame_frame
    \/ RunOneGame_step
SpecGame == InitGame /\ [][NextGame]_vars

(***************************************************************************)
(* AsyncLearnerHost (handlers/async/AsyncHost.py).  The host object, its   *)
(* run loop and the two directions of every learner's pipe are the fields  *)
(* of host.  The learner processes are the environment: they put messages  *)
(* on their pipe and take the host's messages off it.  The shared network  *)
(* is the sequence of the gradients applied to it.                         *)
(***************************************************************************)
MaxLearners == 2         \* learners handed to the constructor
MaxMsgs == 2             \* messages the learners send in one run
DefaultEpochs == 1       \* run(self, epochs=1, ...)
EpochFrames == 4000000   \* "4000000 frames is defined as an epoch"

FrameCounts == {2, EpochFrames}      \* extras[1] of a gradient message
Scores == {-1, 2}                    \* extras['score'] of a stats message

RECURSIVE Sum(_)
Sum(sq) == IF sq = <<>> THEN 0 ELSE Head(sq) + Sum(Tail(sq))

\* lines 42-69
AsyncLearnerHost_init(learners) ==
    [cnn |-> <<>>,
     learner_frames |-> [i \in 1 .. learners |-> 0],
     learner_stats |-> [i \in 1 .. learners |-> <<>>],
     best_score |-> 0,
     to_host |-> [i \in 1 .. learners |-> <<>>],
     to_learner |-> [i \in 1 .. learners |-> <<>>],
     pc |-> "constructed",
     epochs |-> 0,
     ep_count |-> 0,
     learner_ind |-> 0]

\* lines 93-96 with the counter taken before learner_frames is updated
AsyncLearnerHost_process_pipe_stale(h, learner_ind) ==
    LET msg == Head(h.to_host[learner_ind + 1])
        pipe_cmd == msg[1]
        extras == msg[2]
        received == [h EXCEPT !.to_host[learner_ind + 1] = Tail(@)]
    IN  IF pipe_cmd = "ClientSendingGradientsSteps"
        THEN LET cnn == Append(h.cnn, extras[1])
             IN  [received EXCEPT
                     !.cnn = cnn,
                     !.learner_frames[learner_ind + 1] = extras[2],
                     !.to_learner[learner_ind + 1] =
                         Append(@, <<"HostSendingGlobalParameters",
                                     <<cnn, [counter |-> Sum(h.learner_frames)]>> >>)]
        ELSE IF pipe_cmd = "ClientSendingStats"
        THEN [received EXCEPT
                 !.learner_stats[learner_ind + 1] = Append(@, extras),
                 !.best_score = IF extras.score > @ THEN extras.score ELSE @]
        ELSE received

\* lines 89-100; learner_ind counts from 0 as in the code, extras of a gradient
\* message is the pair (gradients, frames), extras of a stats message a dict
AsyncLearnerHost_process_pipe(h, learner_ind) ==
    LET msg == Head(h.to_host[learner_ind + 1])
        pipe_cmd == msg[1]
        extras == msg[2]
        received == [h EXCEPT !.to_host[learner_ind + 1] = Tail(@)]
    IN  IF pipe_cmd = "ClientSendingGradientsSteps"
        THEN LET cnn == Append(h.cnn, extras[1])
                 learner_frames == [h.learner_frames EXCEPT ![learner_ind + 1] = extras[2]]
             IN  [received EXCEPT
                     !.cnn = cnn,
                     !.learner_frames = learner_frames,
                     !.to_learner[learner_ind + 1] =
                         Append(@, <<"HostSendingGlobalParameters",
                                     <<cnn, [counter |-> Sum(learner_frames)]>> >>)]
        ELSE IF pipe_cmd = "ClientSendingStats"
        THEN [received EXCEPT
                 !.learner_stats[learner_ind + 1] = Append(@, extras),
                 !.best_score = IF extras.score > @ THEN extras.score ELSE @]
        ELSE received

nonhost == <<root, states, actions, rewards, term_states, size, max_len, shadow,
             unreported, registered, action_handler, game>>

\* lines 72-74
Run ==
    /\ host # None
    /\ host.pc = "constructed"
    /\ \E epochs \in {DefaultEpochs} :
         host' = [host EXCEPT
                    !.epochs = epochs,
                    !.ep_count = 0,
                    !.to_learner = [i \in DOMAIN @ |-> Append(@[i], <<"Start">>)],
                    !.pc = "while"]
    /\ ret' = [op |-> "run"]
    /\ UNCHANGED <<nonhost, calls>>

\* line 77
RunWhile ==
    /\ host # None
    /\ host.pc = "while"
    /\ IF Sum(host.learner_frames) < host.epochs * EpochFrames
       THEN /\ host' = [host EXCEPT !.pc = "poll", !.learner_ind = 0]
            /\ UNCHANGED ret
       ELSE /\ host' = [host EXCEPT !.pc = "done"]
            /\ ret' = [op |-> "run", line |-> 77]
    /\ UNCHANGED <<nonhost, calls>>

\* lines 78-80, one learner of the sweep
RunPoll ==
    /\ host # None
    /\ host.pc = "poll"
    /\ LET polled == IF host.to_host[host.learner_ind + 1] # <<>>
                     THEN AsyncLearnerHost_process_pipe(host, host.learner_ind)
                     ELSE host
       IN  host' = [polled EXCEPT
                      !.learner_ind = @ + 1,
                      !.pc = IF host.learner_ind + 1 < Len(host.learner_frames)
                             THEN "poll" ELSE "dump"]
    /\ ret' = IF host.to_host[host.learner_ind + 1] # <<>>
              THEN [op |-> "process_pipe", learner_ind |-> host.learner_ind,
                    msg |-> Head(host.to_host[host.learner_ind + 1])]
              ELSE ret
    /\ UNCHANGED <<nonhost, calls>>

\* lines 82-87; ep_count is kept in hundredths
RunDump ==
    /\ host # None
    /\ host.pc = "dump"
    /\ IF Sum(host.learner_frames) * 100 >= host.ep_count * EpochFrames
       THEN /\ host' = [host EXCEPT !.ep_count = @ + 1, !.pc = "while"]
            /\ ret' = [op |-> "pickle.dump", parameters |-> host.cnn,
                       counter |-> Sum(host.learner_frames)]
       ELSE /\ host' = [host EXCEPT !.pc = "while"]
            /\ UNCHANGED ret
    /\ UNCHANGED <<nonhost, calls>>

\* a learner process puts a message on its end of the pipe; the gradients of
\* the n-th message of a run are the number n, so that no two are equal
LearnerSend ==
    /\ host # None
    /\ calls < MaxMsgs
    /\ \E i \in DOMAIN host.to_host,
          msg \in {<<"ClientSendingGradientsSteps", <<calls + 1, f>> >> :
                        f \in FrameCounts}
                  \cup {<<"ClientSendingStats", [score |-> sc]>> : sc \in Scores} :
         host' = [host EXCEPT !.to_host[i] = Append(@, msg)]
    /\ calls' = calls + 1
    /\ UNCHANGED <<nonhost, ret>>

\* a learner process takes a message of the host off its end of the pipe
LearnerRecv ==
    /\ host # None
    /\ \E i \in DOMAIN host.to_learner :
         /\ host.to_learner[i] # <<>>
         /\ host' = [host EXCEPT !.to_learner[i] = Tail(@)]
    /\ UNCHANGED <<nonhost, ret, calls>>

InitHost ==
    /\ EmptyStore(0)
    /\ action_handler = None
    /\ game = None
    /\ \E learners \in 1 .. MaxLearners : host = AsyncLearnerHost_init(learners)
NextHost ==
    \/ Run
    \/ RunWhile
    \/ RunPoll
    \/ RunDump
    \/ LearnerSend
    \/ LearnerRecv
SpecHost == InitHost /\ [][NextHost]_vars

(***************************************************************************)
(* C1: whenever pop_max is called on a non-empty tree, the priority it     *)
(* returns is the maximum of the priorities the shadow multiset holds at   *)
(* the moment of the call, whatever inserts and pops came before and       *)
(* whether or not +infinity or duplicate priorities are present.           *)
(***************************************************************************)
C1_PopMaxReturnsMaximum ==
    [][ret'.op = "pop_max" => ret'.val = SetMax(ShadowValues)]_vars

\* a pop returned +infinity while another +infinity entry and a finite entry
\* stayed behind
C1_Witness ==
    /\ ret.op = "pop_max"
    /\ ret.val = Inf
    /\ Inf \in ShadowValues
    /\ \E v \in ShadowValues : v < Inf

(***************************************************************************)
(* C2: the tree is always a search tree: below every node, each priority   *)
(* of the left subtree is strictly less than the node's priority and each  *)
(* priority of the right subtree is greater than or equal to it.           *)
(***************************************************************************)
C2_SearchTreeOrder ==
    \A n \in SubTrees(root) :
        /\ \A v \in TreeValues(n.left) : v < n.value
        /\ \A v \in TreeValues(n.right) : v >= n.value

\* after a pop, a root with both subtrees, the right one holding a duplicate
\* of the root's priority
C2_Witness ==
    /\ ret.op = "pop_max"
    /\ root # None
    /\ root.left # None
    /\ root.right # None
    /\ root.value \in TreeValues(root.right)

(***************************************************************************)
(* C3: get_prioritized_experience(k) called while the buffer size is at    *)
(* most k returns the six None values and pops nothing: the tree and the   *)
(* buffer are the same after the call as before.                           *)
(***************************************************************************)
C3_InsufficientDataIsNull ==
    [][(ret'.op = "get_prioritized_experience" /\ size <= ret'.mini_batch)
        => /\ ret'.status = "null"
           /\ ret'.mb_states = None /\ ret'.mb_actions = None
           /\ ret'.mb_rewards = None /\ ret'.mb_states_tp1 = None
           /\ ret'.mb_terminal = None /\ ret'.mb_inds_poped = None
           /\ root' = root
           /\ UNCHANGED <<states, actions, rewards, term_states, size>>]_vars

\* the null result was returned on a buffer of exactly k entries whose tree
\* had an entry to pop
C3_Witness ==
    /\ ret.op = "get_prioritized_experience"
    /\ ret.status = "null"
    /\ size = ret.mini_batch
    /\ root # None

(***************************************************************************)
(* C4: a get_prioritized_experience(k) that returns a batch has made       *)
(* exactly k pop_max calls: the tree holds k entries fewer than before,    *)
(* and the returned index list has length k and is the list of payloads    *)
(* that k successive pop_max calls take from the tree, in that order.      *)
(***************************************************************************)
RECURSIVE PopPayloads(_, _)
PopPayloads(rt, n) ==
    IF n = 0 \/ rt = None THEN <<>>
    ELSE LET p == BinaryTree_pop_max(rt)
         IN  <<p.extra_vals>> \o PopPayloads(p.root, n - 1)

C4_BatchPopsExactlyK ==
    [][(ret'.op = "get_prioritized_experience" /\ ret'.status = "batch")
        => /\ size > ret'.mini_batch
           /\ TreeCount(root') = TreeCount(root) - ret'.mini_batch
           /\ Len(ret'.mb_inds_poped) = ret'.mini_batch
           /\ ret'.mb_inds_poped = PopPayloads(root, ret'.mini_batch)]_vars

\* a batch of two was returned and entries stayed behind in the tree
C4_Witness ==
    /\ ret.op = "get_prioritized_experience"
    /\ ret.status = "batch"
    /\ ret.mini_batch = 2
    /\ root # None

(***************************************************************************)
(* C5: a returned batch of k indices (the size check lets a batch be drawn  *)
(* only once more than one transition has been added) has k pairwise       *)
(* distinct indices, and none of them is an index that an earlier batch    *)
(* returned and set_new_td_errors has not reinserted since.                *)
(***************************************************************************)
C5_DistinctUntilReinserted ==
    [][(ret'.op = "get_prioritized_experience" /\ ret'.status = "batch")
        => /\ Cardinality(SeqRange(ret'.mb_inds_poped)) = ret'.mini_batch
           /\ SeqRange(ret'.mb_inds_poped) \cap unreported = {}]_vars

(***************************************************************************)
(* C6 as stated: set_new_td_errors([p], [i]) followed at once by           *)
(* get_prioritized_experience(1) on a buffer of more than one entry        *)
(* returns the index list [i], whatever the priority p.                    *)
(***************************************************************************)
C6_RoundTripAnyPriority ==
    [][(/\ ret.op = "set_new_td_errors"
        /\ Len(ret.state_inds) = 1
        /\ ret'.op = "get_prioritized_experience"
        /\ ret'.mini_batch = 1
        /\ size > 1)
        => /\ ret'.status = "batch"
           /\ ret'.mb_inds_poped = ret.state_inds]_vars

(***************************************************************************)
(* C6 amended: set_new_td_errors([p], [i]), for an index i of the batch    *)
(* just returned and a priority p that is at least every priority the tree *)
(* holds, followed at once by get_prioritized_experience(1) on a buffer of *)
(* more than one entry, returns the index list [i].                        *)
(***************************************************************************)
C6_RoundTripWhenMaximal ==
    [][(/\ ret.op = "set_new_td_errors"
        /\ Len(ret.state_inds) = 1
        /\ ret.td_errors[1] >= SetMax(TreeValues(root))
        /\ ret'.op = "get_prioritized_experience"
        /\ ret'.mini_batch = 1
        /\ size > 1)
        => /\ ret'.status = "batch"
           /\ ret'.mb_inds_poped = ret.state_inds]_vars

\* a batch of one was drawn right after set_new_td_errors([p], [i]), it is
\* [i] with priority p, and an entry of lower priority stayed in the tree
C6_Witness ==
    /\ ret.op = "get_prioritized_experience"
    /\ ret.status = "batch"
    /\ ret.mini_batch = 1
    /\ ret.after.op = "set_new_td_errors"
    /\ Len(ret.after.state_inds) = 1
    /\ ret.mb_inds_poped = ret.after.state_inds
    /\ ret.td_error = ret.after.td_errors
    /\ root # None
    /\ \A v \in TreeValues(root) : v < ret.td_error[1]

(***************************************************************************)
(* C7: in a returned batch, slot j holds the state, action and reward the  *)
(* buffer has at the returned index i; if i is in the terminal set the     *)
(* terminal flag is 1 and the next-state slot is the zero placeholder,     *)
(* otherwise the flag is 0 and the next-state slot is the buffer's state   *)
(* at index i+1.                                                           *)
(***************************************************************************)
C7_BatchContents ==
    (ret.op = "get_prioritized_experience" /\ ret.status = "batch")
    => \A j \in 1 .. Len(ret.mb_inds_poped) :
         LET i == ret.mb_inds_poped[j]
         IN  /\ InRange(states, i)
             /\ ret.mb_states[j] = ListGet(states, i)
             /\ ret.mb_actions[j] = ListGet(actions, i)
             /\ ret.mb_rewards[j] = ListGet(rewards, i)
             /\ i \in term_states
                   => ret.mb_terminal[j] = 1 /\ ret.mb_states_tp1[j] = ZeroState
             /\ i \notin term_states
                   => /\ ret.mb_terminal[j] = 0
                      /\ InRange(states, i + 1)
                      /\ ret.mb_states_tp1[j] = ListGet(states, i + 1)

\* a batch with a terminal index and with a non-terminal index whose next
\* state differs from its state
C7_Witness ==
    /\ ret.op = "get_prioritized_experience"
    /\ ret.status = "batch"
    /\ \E j \in 1 .. Len(ret.mb_inds_poped) : ret.mb_inds_poped[j] \in term_states
    /\ \E j \in 1 .. Len(ret.mb_inds_poped) :
          /\ ret.mb_inds_poped[j] \notin term_states
          /\ ret.mb_states_tp1[j] # ret.mb_states[j]

(***************************************************************************)
(* C8: batch assembly never reads a buffer position at or beyond the       *)
(* buffer length: no get_prioritized_experience call ends in an index out  *)
(* of range, also when trim has discarded entries the tree still names.    *)
(***************************************************************************)
C8_NoReadBeyondBuffer ==
    ret.op = "get_prioritized_experience" => ret.status # "IndexError"

(***************************************************************************)
(* C9: a trim() call leaves the buffer no longer than max_len, and what it *)
(* leaves is the tail of the buffer before the call, in the same order:    *)
(* only the oldest entries are discarded.                                  *)
(***************************************************************************)
IsTailOf(new, old) ==
    /\ Len(new) <= Len(old)
    /\ new = SubSeq(old, Len(old) - Len(new) + 1, Len(old))

C10_ScenarioFiveRegistered ==
    /\ ret.op = "add_terminal"
          => /\ TreeCount(root) = 5
             /\ TreeValues(root) = {Inf}
    /\ (ret.op = "get_prioritized_experience" /\ ret.after.op = "add_terminal")
          => /\ ret.status = "batch"
             /\ Len(ret.mb_inds_poped) = 2
             /\ Cardinality(SeqRange(ret.mb_inds_poped)) = 2
             /\ TreeCount(root) = 3

(***************************************************************************)
(* C10 amended: in the scenario, after the four transitions and            *)
(* add_terminal() the tree holds four entries, one for each of the indices *)
(* 0..3, all of priority +infinity; get_prioritized_experience(2) returns  *)
(* two of these indices, each once, and leaves exactly two entries in the  *)
(* tree.                                                                   *)
(***************************************************************************)
C10_ScenarioFourRegistered ==
    /\ ret.op = "add_terminal"
          => /\ TreeCount(root) = 4
             /\ TreePayloads(root) = 0 .. 3
             /\ TreeValues(root) = {Inf}
    /\ (ret.op = "get_prioritized_experience" /\ ret.after.op = "add_terminal")
          => /\ ret.status = "batch"
             /\ Len(ret.mb_inds_poped) = 2
             /\ Cardinality(SeqRange(ret.mb_inds_poped)) = 2
             /\ SeqRange(ret.mb_inds_poped) \subseteq 0 .. 3
             /\ TreeCount(root) = 2
             /\ TreePayloads(root) = (0 .. 3) \ SeqRange(ret.mb_inds_poped)

\* the batch of two has been drawn from the store of capacity 5 holding four
\* transitions, the last one terminal
C10_Witness ==
    /\ max_len = 5
    /\ Len(states) = 4
    /\ term_states = {3}
    /\ ret.op = "get_prioritized_experience"
    /\ ret.after.op = "add_terminal"
    /\ ret.mini_batch = 2
    /\ ret.status = "batch"

(***************************************************************************)
(* C11: every buffer index has at most one entry in the tree at any time   *)
(* (it is absent, pending with +infinity or pending with a score), so no   *)
(* index has a +infinity entry and a scored entry at the same time, when   *)
(* set_new_td_errors is called only with the indices of the batch just     *)
(* returned.                                                               *)
(***************************************************************************)
RECURSIVE EntriesOf(_, _)
EntriesOf(n, i) ==
    IF n = None THEN {}
    ELSE (IF n.extra_vals = i THEN {n} ELSE {})
             \cup EntriesOf(n.left, i) \cup EntriesOf(n.right, i)

RECURSIVE CountOf(_, _)
CountOf(n, i) ==
    IF n = None THEN 0
    ELSE (IF n.extra_vals = i THEN 1 ELSE 0) + CountOf(n.left, i) + CountOf(n.right, i)

C11_OneEntryPerIndex ==
    \A i \in TreePayloads(root) :
        /\ CountOf(root, i) <= 1
        /\ ~(\E a, b \in EntriesOf(root, i) : a.value = Inf /\ b.value < Inf)

(***************************************************************************)
(* C12: while the tree holds a +infinity entry, every entry popped by      *)
(* get_prioritized_experience is a +infinity entry: the first pops of a    *)
(* batch, as many as the tree held +infinity entries, return +infinity,    *)
(* and a call that popped an entry with a finite priority leaves no        *)
(* +infinity entry behind.                                                 *)
(***************************************************************************)
RECURSIVE CountInf(_)
CountInf(n) ==
    IF n = None THEN 0
    ELSE (IF n.value = Inf THEN 1 ELSE 0) + CountInf(n.left) + CountInf(n.right)

C12_FreshBeforeScored ==
    [][ret'.op = "get_prioritized_experience"
        => /\ (\E pr \in BagToSet(TreeBag(root) (-) TreeBag(root')) : pr[1] < Inf)
                  => Inf \notin TreeValues(root')
           /\ ret'.status = "batch"
                  => \A j \in 1 .. Len(ret'.td_error) :
                         j <= CountInf(root) => ret'.td_error[j] = Inf]_vars

\* a batch of two took the last +infinity entry and then a scored one, and
\* scored entries stayed behind
C12_Witness ==
    /\ ret.op = "get_prioritized_experience"
    /\ ret.status = "batch"
    /\ ret.mini_batch = 2
    /\ ret.td_error[1] = Inf
    /\ ret.td_error[2] < Inf
    /\ root # None

(***************************************************************************)
(* C14: in every reachable state, for every k for which                    *)
(* get_prioritized_experience(k) passes its size check (size > k), the     *)
(* tree holds at least k entries; no call ends with pop_max on an empty    *)
(* tree.                                                                   *)
(***************************************************************************)
C14_TreeCoversBatch ==
    /\ \A k \in 1 .. MaxBatch : size > k => TreeCount(root) >= k
    /\ ret.op = "get_prioritized_experience" => ret.status # "AttributeError"

(***************************************************************************)
(* C15: add_experience adds to the tree exactly one entry, of priority     *)
(* +infinity and payload insert_ind-2, when the returned insert index is   *)
(* greater than 1, and nothing otherwise; the successor of the registered  *)
(* transition is in the buffer. add_terminal adds exactly one entry, of    *)
(* priority +infinity and payload size-1.                                  *)
(***************************************************************************)
C15_RegistrationOffset ==
    [][/\ ret'.op = "add_experience"
            => IF ret'.insert_ind > 1
               THEN /\ TreeBag(root') =
                           TreeBag(root) (+) SetToBag({<<Inf, ret'.insert_ind - 2>>})
                    /\ InRange(states', ret'.insert_ind - 2)
                    /\ InRange(states', ret'.insert_ind - 1)
                    /\ ret'.insert_ind - 2 >= 0
               ELSE root' = root
       /\ ret'.op = "add_terminal"
            => TreeBag(root') = TreeBag(root) (+) SetToBag({<<Inf, size - 1>>})]_vars

\* add_experience has just registered the transition before the one it
\* appended, in a store that has seen a terminal marker
C15_Witness ==
    /\ ret.op = "add_experience"
    /\ ret.insert_ind > 1
    /\ term_states # {}
    /\ BagIn(<<Inf, ret.insert_ind - 2>>, TreeBag(root))

(***************************************************************************)
(* C19: pop_max removes from the tree exactly the (priority, payload) pair *)
(* it returns: the multiset of pairs after the call is the multiset before *)
(* minus one copy of that pair, whether the maximum was the root or a node *)
(* below it; insert adds exactly the inserted pair.                        *)
(***************************************************************************)
C19_PopRemovesExactlyOne ==
    [][/\ ret'.op = "pop_max"
            => /\ BagIn(<<ret'.val, ret'.extra_vals>>, TreeBag(root))
               /\ TreeBag(root') =
                      TreeBag(root) (-) SetToBag({<<ret'.val, ret'.extra_vals>>})
       /\ ret'.op = "insert"
            => TreeBag(root') =
                   TreeBag(root) (+) SetToBag({<<ret'.val, ret'.extra_vals>>})]_vars

\* a pop took one of two equal pairs and left the other, with more entries,
\* in the tree
C19_Witness ==
    /\ ret.op = "pop_max"
    /\ TreeCount(root) >= 2
    /\ BagIn(<<ret.val, ret.extra_vals>>, TreeBag(root))

(***************************************************************************)
(* C20: set_new_td_errors(priorities, indices) adds to the tree exactly    *)
(* one entry (priority_j, index_j) for each pair, in the order of the      *)
(* pairs (of two pairs with the same priority and different indices the   *)
(* later one is inserted later, hence popped first, unless the earlier     *)
(* index is listed once more after it), and leaves the states, actions,    *)
(* rewards, terminal set and size of the buffer as they were;              *)
(* get_prioritized_experience leaves the buffer as it was too.             *)
(***************************************************************************)
RECURSIVE PopAll(_)
PopAll(rt) ==
    IF rt = None THEN <<>>
    ELSE LET p == BinaryTree_pop_max(rt)
         IN  <<<<p.val, p.extra_vals>>>> \o PopAll(p.root)

FirstAt(sq, e) == CHOOSE j \in DOMAIN sq : sq[j] = e /\ \A h \in 1 .. j - 1 : sq[h] # e

C20_ReinsertFrame ==
    [][/\ ret'.op = "set_new_td_errors"
            => /\ TreeBag(root') =
                      TreeBag(root) (+) SeqToBag(Zip(ret'.td_errors, ret'.state_inds))
               /\ TreeCount(root') = TreeCount(root) + Len(ret'.state_inds)
               /\ \A j, h \in DOMAIN ret'.state_inds :
                      (/\ j < h
                       /\ ret'.td_errors[j] = ret'.td_errors[h]
                       /\ ret'.state_inds[j] # ret'.state_inds[h]
                       /\ \A g \in DOMAIN ret'.state_inds :
                              g > h => ret'.state_inds[g] # ret'.state_inds[j])
                      => FirstAt(PopAll(root'), <<ret'.td_errors[h], ret'.state_inds[h]>>)
                           < FirstAt(PopAll(root'), <<ret'.td_errors[j], ret'.state_inds[j]>>)
               /\ UNCHANGED <<states, actions, rewards, term_states, size>>
       /\ ret'.op = "get_prioritized_experience"
            => UNCHANGED <<states, actions, rewards, term_states, size>>]_vars

\* two different indices have just been reported with the same priority
\* into a tree that held other entries
C20_Witness ==
    /\ ret.op = "set_new_td_errors"
    /\ Len(ret.state_inds) = 2
    /\ ret.state_inds[1] # ret.state_inds[2]
    /\ ret.td_errors[1] = ret.td_errors[2]
    /\ TreeCount(root) > 2

(***************************************************************************)
(* C13: every transition appended to the store is returned by some batch:  *)
(* for every buffer index i, once add_experience has appended index i, a   *)
(* later get_prioritized_experience returns a batch that contains i,       *)
(* provided batches keep being requested and every returned batch is       *)
(* reported back through set_new_td_errors.                                *)
(***************************************************************************)
C13_EveryIndexSampled ==
    \A i \in 0 .. MaxFill - 1 :
        (ret.op = "add_experience" /\ ret.insert_ind = i + 1)
            ~> (/\ ret.op = "get_prioritized_experience"
                /\ ret.status = "batch"
                /\ i \in SeqRange(ret.mb_inds_poped))

(***************************************************************************)
(* C16: constructing the store with a capacity max_len <= 0 fails at       *)
(* construction, and get_prioritized_experience called with a mini-batch   *)
(* size <= 0 does not return a batch.                                      *)
(***************************************************************************)
C16_MalformedConfigRejected ==
    /\ (ret.op = "__init__" /\ ret.max_len <= 0) => ret.status # "ok"
    /\ (ret.op = "get_prioritized_experience" /\ ret.mini_batch <= 0)
          => ret.status # "batch"

(***************************************************************************)
(* C17: for an ActionHandler built with random_values = (initial, ending,  *)
(* steps), initial >= ending and steps >= 2, after n calls of anneal()     *)
(* randVal is max(ending, initial - n*diff) with                           *)
(* diff = (initial - ending)/(steps - 1); randVal never increases, never   *)
(* is below ending, and stays at ending once it has reached it.            *)
(***************************************************************************)
C17_Annealed ==
    LET initial == action_handler.random_values[1]
        ending == action_handler.random_values[2]
        steps == action_handler.random_values[3]
        \* initial - n*(initial - ending)/(steps - 1) over the denominator
        \* initial[2] * ending[2] * (steps - 1)
        den == initial[2] * ending[2] * (steps - 1)
        num == initial[1] * ending[2] * (steps - 1)
                   - calls * (initial[1] * ending[2] - ending[1] * initial[2])
        floor == ending[1] * initial[2] * (steps - 1)
        expected == IF num < floor THEN floor ELSE num
    IN  ~FracLess(initial, ending)
            => /\ action_handler.randVal[1] * den = expected * action_handler.randVal[2]
               /\ ~FracLess(action_handler.randVal, ending)

RECURSIVE SeqSum(_)
SeqSum(sq) == IF sq = <<>> THEN 0 ELSE Head(sq) + SeqSum(Tail(sq))

C18_ReturnsOnFirstLifeLoss ==
    (game.early_return /\ game.lives # None /\ game.life_ram_ind # None)
        => /\ game.pc = "for" => game.lost_steps = 0
           /\ game.pc = "done" => ret.value = SeqSum(game.step_rewards)

(***************************************************************************)
(* C23: among the entries of equal priority pop_max returns the one        *)
(* inserted last: the entry it returns carries the greatest priority in    *)
(* the tree and, of the entries with that priority, is the most recently   *)
(* inserted one, whatever inserts and pops came before; so among +infinity *)
(* entries the one registered last is sampled first.                       *)
(***************************************************************************)
C23_LastInFirstOut ==
    [][ret'.op = "pop_max"
        => /\ ret'.val = SetMax(ShadowValues)
           /\ ret'.extra_vals =
                  SetMax({pr[2] : pr \in {q \in BagToSet(shadow) : q[1] = ret'.val}})]_vars

\* a pop returned the later of two entries of equal priority after an
\* earlier pop had reshaped the tree: an entry inserted before the returned
\* one, with its priority, is still there, and so is one inserted after it
C23_Witness ==
    /\ ret.op = "pop_max"
    /\ \E pr \in BagToSet(shadow) : pr[1] = ret.val /\ pr[2] < ret.extra_vals
    /\ \E pr \in BagToSet(shadow) : pr[2] > ret.extra_vals

(***************************************************************************)
(* C24: trim() leaves the tree as it is, and every index returned in a     *)
(* batch resolves to the transition (state, action, reward) that the       *)
(* buffer held at that index when the popped entry was inserted into the   *)
(* tree, whatever adds and trims came in between.                          *)
(***************************************************************************)
C24_IndexStableAcrossTrim ==
    [][/\ ret'.op = "trim" => root' = root
       /\ (ret'.op = "get_prioritized_experience" /\ ret'.status = "batch")
            => \A j \in 1 .. Len(ret'.mb_inds_poped) :
                   LET entry == PopAll(registered)[j][2]
                   IN  /\ entry[1] = ret'.mb_inds_poped[j]
                       /\ ret'.mb_states[j] = entry[2]
                       /\ ret'.mb_actions[j] = Transition(entry[2])[2]
                       /\ ret'.mb_rewards[j] = Transition(entry[2])[3]]_vars

(***************************************************************************)
(* C21: every iteration of the main loop of run_one_game calls             *)
(* learner.frames_processed exactly once and before                        *)
(* learner.get_game_action, and the action handed to frames_processed is   *)
(* the one that was sent to the emulator in every frame of the step: 0 in  *)
(* the first step, afterwards what the previous get_game_action returned.  *)
(***************************************************************************)
C21_FramesProcessedBeforeNextAction ==
    /\ [](game.pc \in {"for", "step"} => game.learner_log = <<>>)
    /\ [][(game.pc = "step" /\ game'.pc # "step")
           => LET log == game'.learner_log
                  performed == IF game.returned = <<>> THEN 0
                               ELSE game.returned[Len(game.returned)]
              IN  /\ Len(log) = 2
                  /\ log[1] = <<"frames_processed", performed, game.reward>>
                  /\ log[2][1] = "get_game_action"
                  /\ game'.action_to_perform = log[2][2]
                  /\ Len(game.sent) = game.skipFrame
                  /\ \A k \in DOMAIN game.sent : game.sent[k] = performed]_vars

C21_Witness ==
    /\ game.pc \in {"while", "done"}
    /\ game.skipFrame = 2
    /\ Len(game.returned) = 2
    /\ game.returned[1] = 1
    /\ game.learner_log = << <<"frames_processed", 1, game.reward>>,
                             <<"get_game_action", 0>> >>

(***************************************************************************)
(* C22: for a ClientSendingGradientsSteps message taken off learner i's    *)
(* pipe the host applies exactly one gradient step (that message's         *)
(* gradients) to the shared network, sets learner_frames[i] to the         *)
(* reported frame count and then puts exactly one                          *)
(* HostSendingGlobalParameters reply on that learner's pipe, whose counter *)
(* is the sum of learner_frames after the update; a ClientSendingStats     *)
(* message gets no reply and leaves best_score the maximum of 0 and every  *)
(* score received so far.                                                  *)
(***************************************************************************)
ScoresReceived(h) ==
    UNION {{h.learner_stats[i][k].score : k \in DOMAIN h.learner_stats[i]} :
              i \in DOMAIN h.learner_stats}

C22_ProcessPipe ==
    [][\A i \in DOMAIN host.to_host :
          Len(host'.to_host[i]) < Len(host.to_host[i])
          => LET msg == Head(host.to_host[i])
             IN  /\ msg[1] = "ClientSendingGradientsSteps"
                    => /\ host'.cnn = Append(host.cnn, msg[2][1])
                       /\ host'.learner_frames =
                              [host.learner_frames EXCEPT ![i] = msg[2][2]]
                       /\ host'.to_learner =
                              [host.to_learner EXCEPT ![i] =
                                  Append(@, <<"HostSendingGlobalParameters",
                                              <<host'.cnn,
                                                [counter |-> Sum(host'.learner_frames)]>> >>)]
                       /\ host'.best_score = host.best_score
                       /\ host'.learner_stats = host.learner_stats
                 /\ msg[1] = "ClientSendingStats"
                    => /\ host'.to_learner = host.to_learner
                       /\ host'.cnn = host.cnn
                       /\ host'.learner_frames = host.learner_frames
                       /\ host'.learner_stats =
                              [host.learner_stats EXCEPT ![i] = Append(@, msg[2])]
                       /\ host'.best_score = SetMax({0} \cup ScoresReceived(host'))]_vars

C22_Witness ==
    /\ ret.op = "process_pipe"
    /\ ret.learner_ind = 1
    /\ ret.msg[1] = "ClientSendingGradientsSteps"
    /\ host.learner_stats[1] = <<[score |-> 2]>>
    /\ host.best_score = 2
    /\ \A k \in DOMAIN host.to_learner[1] : host.to_learner[1][k] = <<"Start">>
    /\ host.learner_frames = <<0, 2>>
    /\ Len(host.cnn) = 1
    /\ host.to_learner[2] # <<>>
    /\ host.to_learner[2][Len(host.to_learner[2])] =
           <<"HostSendingGlobalParameters", <<host.cnn, [counter |-> 2]>> >>

====
